---- MODULE Spec2Model ----
\* Day 01 of tedle/Advent-of-Code-2019 (src/01/run.py): the two fuel functions
\* and the two-pass driver that reads the file "input", as a state machine.
\* Text is modelled as sequences of one-character strings, so that reading,
\* parsing and printing are computed and not assumed.
EXTENDS Integers, Sequences, FiniteSets, TLC

\* ---------------------------------------------------------------- bounds
\* Number of lines concatenated into the enumerated multi-line input files.
MaxLines == 2
\* Single-line input files hold every mass of -MaxNegMass .. MaxMass.
MaxNegMass == 30
MaxMass == 120

\* ------------------------------------------------------------- characters
NL == "\n"
DigitChars == <<"0", "1", "2", "3", "4", "5", "6", "7", "8", "9">>
Digits == {DigitChars[i] : i \in 1..10}
Whitespace == {" ", "\t", NL}
DigitVal(c) == (CHOOSE i \in 1..10 : DigitChars[i] = c) - 1

\* str(n) of a Python int: decimal digits, "-" in front of a negative number.
RECURSIVE NatStr(_)
NatStr(n) ==
    IF n < 10 THEN <<DigitChars[n + 1]>>
    ELSE NatStr(n \div 10) \o <<DigitChars[(n % 10) + 1]>>
ToStr(n) == IF n < 0 THEN <<"-">> \o NatStr(0 - n) ELSE NatStr(n)

\* int(line) of a Python str: surrounding whitespace is stripped, one optional
\* sign, then digits in which single underscores may separate digits.
\* Anything else raises ValueError (ok = FALSE).
RECURSIVE LStrip(_)
LStrip(s) == IF s # <<>> /\ Head(s) \in Whitespace THEN LStrip(Tail(s)) ELSE s
RECURSIVE RStrip(_)
RStrip(s) ==
    IF s # <<>> /\ s[Len(s)] \in Whitespace THEN RStrip(SubSeq(s, 1, Len(s) - 1)) ELSE s
Strip(s) == RStrip(LStrip(s))
RECURSIVE DigitsValue(_, _)
DigitsValue(s, acc) ==
    IF s = <<>> THEN acc
    ELSE IF Head(s) = "_" THEN DigitsValue(Tail(s), acc)
    ELSE DigitsValue(Tail(s), 10 * acc + DigitVal(Head(s)))
WellFormedDigits(s) ==
    /\ s # <<>>
    /\ s[1] \in Digits
    /\ s[Len(s)] \in Digits
    /\ \A i \in 1..Len(s) : s[i] \in Digits \cup {"_"}
    /\ \A i \in 1..(Len(s) - 1) : ~(s[i] = "_" /\ s[i + 1] = "_")
ParseInt(line) ==
    LET t == Strip(line)
        signed == t # <<>> /\ t[1] \in {"+", "-"}
        body == IF signed THEN Tail(t) ELSE t
    IN  IF WellFormedDigits(body)
        THEN [ok |-> TRUE,
              val |-> IF signed /\ t[1] = "-" THEN 0 - DigitsValue(body, 0)
                      ELSE DigitsValue(body, 0)]
        ELSE [ok |-> FALSE, val |-> 0]

\* f.readlines(): the content cut after every newline, the newline kept; a
\* last line without a newline is a line too, an empty content has no lines.
RECURSIVE SplitLines(_, _)
SplitLines(rest, cur) ==
    IF rest = <<>> THEN (IF cur = <<>> THEN <<>> ELSE <<cur>>)
    ELSE IF Head(rest) = NL
         THEN <<Append(cur, NL)>> \o SplitLines(Tail(rest), <<>>)
         ELSE SplitLines(Tail(rest), Append(cur, Head(rest)))
\* The same cut as content.split("\n") makes it: newline dropped, and a last,
\* empty piece after the final newline (and for an empty content).
RECURSIVE SplitOnNewline(_, _)
SplitOnNewline(rest, cur) ==
    IF rest = <<>> THEN <<cur>>
    ELSE IF Head(rest) = NL
         THEN <<cur>> \o SplitOnNewline(Tail(rest), <<>>)
         ELSE SplitOnNewline(Tail(rest), Append(cur, Head(rest)))
readlines_split(content) == SplitOnNewline(content, <<>>)
readlines(content) == SplitLines(content, <<>>)

\* sum(list): the list folded from the left, starting at 0.
RECURSIVE SumFrom(_, _)
SumFrom(xs, acc) == IF xs = <<>> THEN acc ELSE SumFrom(Tail(xs), acc + Head(xs))
sum(xs) == SumFrom(xs, 0)

\* ------------------------------------------------------ the two functions
\* fuel, with the division rounding toward zero as C-like languages do.
TruncDiv(a, b) == IF a >= 0 THEN a \div b ELSE 0 - ((0 - a) \div b)
fuel_trunc(mass) == TruncDiv(mass, 3) - 2
\* fuel, adding the 2 it should subtract.
fuel_plus(mass) == (mass \div 3) + 2
\* def fuel(mass): return mass // 3 - 2
fuel(mass) == (mass \div 3) - 2

\* extra_fuel line 6, with the boundary left out.
no_more_fuel_strict(mass) == mass < 0
\* if mass <= 0:
no_more_fuel(mass) == mass <= 0

\* extra_fuel line 7, without the clamp.
base_result_unclamped(mass) == mass
\* return 0
base_result(mass) == 0

\* extra_fuel line 8, dropping the fuel just added.
accumulate_dropped(mass, rest) == rest
\* return mass + extra_fuel(mass), once the inner call has returned `rest`
accumulate(mass, rest) == mass + rest

\* extra_fuel as a function of its argument.
RECURSIVE extra_fuel(_)
extra_fuel(mass) ==
    LET m == fuel(mass)
    IN  IF no_more_fuel(m) THEN base_result(m) ELSE accumulate(m, extra_fuel(m))

\* ------------------------------------------------------------ input files
Line12 == <<"1", "2", NL>>
Line14 == <<"1", "4", NL>>
Line1969 == <<"1", "9", "6", "9", NL>>
Line100756 == <<"1", "0", "0", "7", "5", "6", NL>>
ExampleFile == Line12 \o Line14 \o Line1969 \o Line100756

\* Lines the multi-line files are built from: two masses, a mass whose line
\* has no newline (it runs into the next line), a non-integer and a blank line.
LineSet == {Line14, <<"-", "7", NL>>, <<"9">>, <<"x", NL>>, <<NL>>}
RECURSIVE Contents(_)
Contents(n) ==
    IF n = 0 THEN {<<>>}
    ELSE LET prev == Contents(n - 1) IN prev \cup {c \o l : c \in prev, l \in LineSet}
SmallFiles == Contents(MaxLines)
MassFiles == {ToStr(m) \o <<NL>> : m \in (0 - MaxNegMass)..MaxMass}
\* Spellings int() accepts or rejects.
OddFiles ==
    { <<" ", "+", "1", "_", "0", "\t", NL>>, <<"0", "0", "7", NL>>,
      <<"1", "_", "_", "0", NL>>, <<"_", "1", NL>>, <<"1", "_", NL>>,
      <<"+", NL>>, <<"-", " ", "7", NL>>, <<"1", " ", "2", NL>> }
FileContents ==
    SmallFiles \cup MassFiles \cup OddFiles \cup {ExampleFile, Line1969, Line100756}
Present(data) == [exists |-> TRUE, data |-> data]
Missing == [exists |-> FALSE, data |-> <<>>]

\* ------------------------------------------------------------------ state
VARIABLES
    disk,      \* the file "input": [exists, data]
    changed,   \* another process has replaced the file between the passes
    pc,        \* position in the module body
    pass,      \* 1: lines 10-12, 2: lines 13-15
    handle,    \* handle[p]: "unopened", "open" or "closed", the f of pass p
    lines,     \* lines[p]: <<>> before f.readlines() of pass p, <<list>> after
    idx,       \* lines of the current pass the comprehension has consumed
    vals,      \* the list the comprehension is building
    stack,     \* frames of extra_fuel: [arg, mass, at], innermost last
    ret,       \* <<v>>: value just returned to the innermost frame, else <<>>
    calls,     \* recursive calls made for the current line
    results,   \* <<arg, value>> of every extra_fuel call that has returned
    sums,      \* sums[p]: <<>> before sum() of pass p, <<total>> after
    out,       \* lines written to standard output
    fault      \* "none", or the uncaught exception that ended the run

vars == <<disk, changed, pc, pass, handle, lines, idx, vals, stack, ret, calls,
          results, sums, out, fault>>

Label(p) == IF p = 1 THEN <<"1", "-", "1", ":">> ELSE <<"1", "-", "2", ":">>

Init ==
    /\ disk \in {Present(d) : d \in FileContents} \cup {Missing}
    /\ changed = FALSE
    /\ pc = "open"
    /\ pass = 1
    /\ handle = [p \in 1..2 |-> "unopened"]
    /\ lines = [p \in 1..2 |-> <<>>]
    /\ idx = 0
    /\ vals = <<>>
    /\ stack = <<>>
    /\ ret = <<>>
    /\ calls = 0
    /\ results = {}
    /\ sums = [p \in 1..2 |-> <<>>]
    /\ out = <<>>
    /\ fault = "none"

\* ---------------------------------------------------------------- driver
CurrentLines == lines[pass][1]
NextLine == ParseInt(CurrentLines[idx + 1])
Top == stack[Len(stack)]
Pop == SubSeq(stack, 1, Len(stack) - 1)

\* with open("input") as f:  (lines 10 and 13) on an existing file
Open ==
    /\ pc = "open"
    /\ disk.exists
    /\ handle' = [handle EXCEPT ![pass] = "open"]
    /\ pc' = "label"
    /\ UNCHANGED <<disk, changed, pass, lines, idx, vals, stack, ret, calls,
                   results, sums, out, fault>>

\* open("input") on a missing file raises before any handle exists
OpenMissing ==
    /\ pc = "open"
    /\ ~disk.exists
    /\ fault' = "FileNotFoundError"
    /\ pc' = "fault"
    /\ UNCHANGED <<disk, changed, pass, handle, lines, idx, vals, stack, ret,
                   calls, results, sums, out>>

\* print("1-1:") / print("1-2:")  (lines 11 and 14)
PrintLabel ==
    /\ pc = "label"
    /\ out' = Append(out, Label(pass))
    /\ pc' = "read"
    /\ UNCHANGED <<disk, changed, pass, handle, lines, idx, vals, stack, ret,
                   calls, results, sums, fault>>

\* f.readlines() of lines 12 and 15, cutting the content as split("\n") does
ReadSplit ==
    /\ pc = "read"
    /\ lines' = [lines EXCEPT ![pass] = <<readlines_split(disk.data)>>]
    /\ idx' = 0
    /\ vals' = <<>>
    /\ pc' = "comp"
    /\ UNCHANGED <<disk, changed, pass, handle, stack, ret, calls, results,
                   sums, out, fault>>
\* f.readlines()  (lines 12 and 15): the whole file at once, before the
\* comprehension looks at the first line
Read ==
    /\ pc = "read"
    /\ lines' = [lines EXCEPT ![pass] = <<readlines(disk.data)>>]
    /\ idx' = 0
    /\ vals' = <<>>
    /\ pc' = "comp"
    /\ UNCHANGED <<disk, changed, pass, handle, stack, ret, calls, results,
                   sums, out, fault>>

\* [fuel(int(line)) for line in ...]  (line 12), one line
CompFuel ==
    /\ pc = "comp" /\ pass = 1
    /\ idx < Len(CurrentLines)
    /\ NextLine.ok
    /\ vals' = Append(vals, fuel(NextLine.val))
    /\ idx' = idx + 1
    /\ UNCHANGED <<disk, changed, pc, pass, handle, lines, stack, ret, calls,
                   results, sums, out, fault>>

\* line 15 written with fuel in place of extra_fuel
CompCallFuel ==
    /\ pc = "comp" /\ pass = 2
    /\ idx < Len(CurrentLines)
    /\ NextLine.ok
    /\ vals' = Append(vals, fuel(NextLine.val))
    /\ idx' = idx + 1
    /\ UNCHANGED <<disk, changed, pc, pass, handle, lines, stack, ret, calls,
                   results, sums, out, fault>>
\* [extra_fuel(int(line)) for line in ...]  (line 15): the call for one line
CompCall ==
    /\ pc = "comp" /\ pass = 2
    /\ idx < Len(CurrentLines)
    /\ NextLine.ok
    /\ stack' = <<[arg |-> NextLine.val, mass |-> NextLine.val, at |-> "entry"]>>
    /\ ret' = <<>>
    /\ calls' = 0
    /\ pc' = "eval"
    /\ UNCHANGED <<disk, changed, pass, handle, lines, idx, vals, results, sums,
                   out, fault>>

\* int(line) raises, caught and the line skipped
CompSkip ==
    /\ pc = "comp"
    /\ idx < Len(CurrentLines)
    /\ ~NextLine.ok
    /\ idx' = idx + 1
    /\ UNCHANGED <<disk, changed, pc, pass, handle, lines, vals, stack, ret,
                   calls, results, sums, out, fault>>
\* int(line) raises, the file left open
CompFaultLeak ==
    /\ pc = "comp"
    /\ idx < Len(CurrentLines)
    /\ ~NextLine.ok
    /\ fault' = "ValueError"
    /\ pc' = "fault"
    /\ UNCHANGED <<disk, changed, pass, handle, lines, idx, vals, stack, ret,
                   calls, results, sums, out>>
\* int(line) raises ValueError (lines 12 and 15): the with statement closes
\* the file and the exception leaves the module uncaught
CompFault ==
    /\ pc = "comp"
    /\ idx < Len(CurrentLines)
    /\ ~NextLine.ok
    /\ handle' = [handle EXCEPT ![pass] = "closed"]
    /\ fault' = "ValueError"
    /\ pc' = "fault"
    /\ UNCHANGED <<disk, changed, pass, lines, idx, vals, stack, ret, calls,
                   results, sums, out>>

\* A frame of extra_fuel returns v: to its caller, or to the comprehension.
Return(v) ==
    /\ results' = results \cup {<<Top.arg, v>>}
    /\ stack' = Pop
    /\ IF Len(stack) = 1
       THEN /\ vals' = Append(vals, v)
            /\ idx' = idx + 1
            /\ ret' = <<>>
            /\ pc' = "comp"
       ELSE /\ ret' = <<v>>
            /\ UNCHANGED <<vals, idx, pc>>

\* extra_fuel lines 5-7: mass = fuel(mass); if mass <= 0: return 0
ExtraFuelBase ==
    /\ pc = "eval" /\ Top.at = "entry"
    /\ no_more_fuel(fuel(Top.mass))
    /\ Return(base_result(fuel(Top.mass)))
    /\ UNCHANGED <<disk, changed, pass, handle, lines, calls, sums, out, fault>>

\* extra_fuel lines 5, 6 and 8: mass = fuel(mass), then the recursive call
ExtraFuelRecurse ==
    /\ pc = "eval" /\ Top.at = "entry"
    /\ ~no_more_fuel(fuel(Top.mass))
    /\ stack' = Append([stack EXCEPT ![Len(stack)] =
                            [@ EXCEPT !.mass = fuel(Top.mass), !.at = "called"]],
                       [arg |-> fuel(Top.mass), mass |-> fuel(Top.mass), at |-> "entry"])
    /\ calls' = calls + 1
    /\ UNCHANGED <<disk, changed, pc, pass, handle, lines, idx, vals, ret,
                   results, sums, out, fault>>

\* extra_fuel line 8: return mass + <the value the inner call returned>
ExtraFuelReturn ==
    /\ pc = "eval" /\ Top.at = "called"
    /\ ret # <<>>
    /\ Return(accumulate(Top.mass, ret[1]))
    /\ UNCHANGED <<disk, changed, pass, handle, lines, calls, sums, out, fault>>

\* sum([...])  (lines 12 and 15), once the comprehension has built its list
Sum ==
    /\ pc = "comp"
    /\ idx = Len(CurrentLines)
    /\ sums' = [sums EXCEPT ![pass] = <<sum(vals)>>]
    /\ pc' = "print"
    /\ UNCHANGED <<disk, changed, pass, handle, lines, idx, vals, stack, ret,
                   calls, results, out, fault>>

\* print(sum(...))  (lines 12 and 15)
PrintSum ==
    /\ pc = "print"
    /\ out' = Append(out, ToStr(sums[pass][1]))
    /\ pc' = "exit"
    /\ UNCHANGED <<disk, changed, pass, handle, lines, idx, vals, stack, ret,
                   calls, results, sums, fault>>

\* leaving the with block: the file is closed; pass 2 follows pass 1
ExitWith ==
    /\ pc = "exit"
    /\ handle' = [handle EXCEPT ![pass] = "closed"]
    /\ IF pass = 1
       THEN pass' = 2 /\ pc' = "open"
       ELSE pass' = pass /\ pc' = "done"
    /\ UNCHANGED <<disk, changed, lines, idx, vals, stack, ret, calls, results,
                   sums, out, fault>>

\* Environment: between the two passes another process replaces or removes
\* the file. (A change before pass 1 reads is another initial content, one
\* after pass 2 has read is not seen.)
Rewrite ==
    /\ pc = "open" /\ pass = 2
    /\ ~changed
    /\ \E d \in {Present(c) : c \in SmallFiles} \cup {Missing} :
           d # disk /\ disk' = d
    /\ changed' = TRUE
    /\ UNCHANGED <<pc, pass, handle, lines, idx, vals, stack, ret, calls,
                   results, sums, out, fault>>

Next ==
    \/ Open
    \/ OpenMissing
    \/ PrintLabel
    \/ Read
    \/ CompFuel
    \/ CompCall
    \/ CompFault
    \/ ExtraFuelBase
    \/ ExtraFuelRecurse
    \/ ExtraFuelReturn
    \/ Sum
    \/ PrintSum
    \/ ExitWith
    \/ Rewrite

Spec == Init /\ [][Next]_vars
\* The interpreter runs the module body to its end; the environment owes nothing.
RunStep ==
    \/ Open \/ OpenMissing \/ PrintLabel \/ Read \/ CompFuel \/ CompCall
    \/ CompFault \/ ExtraFuelBase \/ ExtraFuelRecurse \/ ExtraFuelReturn
    \/ Sum \/ PrintSum \/ ExitWith
FairSpec == Spec /\ WF_vars(RunStep)

\* ------------------------------------------------------------ properties
ReadDone(p) == lines[p] # <<>>
LinesOf(p) == lines[p][1]
MassAt(p, i) == ParseInt(LinesOf(p)[i]).val
WellFormed(p) == \A i \in 1..Len(LinesOf(p)) : ParseInt(LinesOf(p)[i]).ok
HasBadLine(p) == ~WellFormed(p)
FirstBad(p) ==
    CHOOSE i \in 1..Len(LinesOf(p)) :
        /\ ~ParseInt(LinesOf(p)[i]).ok
        /\ \A j \in 1..(i - 1) : ParseInt(LinesOf(p)[j]).ok
RECURSIVE Flatten(_)
Flatten(ls) == IF ls = <<>> THEN <<>> ELSE Head(ls) \o Flatten(Tail(ls))
IsPrefix(a, b) == Len(a) <= Len(b) /\ a = SubSeq(b, 1, Len(a))
Zero == <<"0">>

\* C1: fuel(m) is floor(m/3) - 2 for every mass of pass 1, negative ones
\* included: with f = fuel(m), 3*(f+2) <= m < 3*(f+2) + 3; and the four
\* concrete values of the spec.
C1_FuelIsFloor ==
    (pass = 1 /\ ReadDone(1)) =>
        \A i \in 1..Len(vals) :
            LET m == MassAt(1, i)
                f == vals[i]
            IN  /\ 3 * (f + 2) <= m
                /\ m < 3 * (f + 2) + 3
                /\ (m = 12 => f = 2)
                /\ (m = 14 => f = 2)
                /\ (m = 1969 => f = 654)
                /\ (m = 100756 => f = 33583)
\* A negative mass that is no multiple of 3 has been converted: -7 gives -5.
C1_Witness ==
    /\ pass = 1 /\ ReadDone(1)
    /\ \E i \in 1..Len(vals) : MassAt(1, i) = 0 - 7 /\ vals[i] = 0 - 5

\* C2: every call extra_fuel(a) that returned, with fuel(a) > 0, returned
\* fuel(a) + the value the call extra_fuel(fuel(a)) returned; each argument
\* has one value; extra_fuel(14)=2, extra_fuel(1969)=966, extra_fuel(100756)=50346.
C2_RecursiveCase ==
    /\ \A r \in results :
           fuel(r[1]) > 0 =>
               \E q \in results : q[1] = fuel(r[1]) /\ r[2] = fuel(r[1]) + q[2]
    /\ \A r, q \in results : r[1] = q[1] => r[2] = q[2]
    /\ \A r \in results :
           /\ (r[1] = 14 => r[2] = 2)
           /\ (r[1] = 1969 => r[2] = 966)
           /\ (r[1] = 100756 => r[2] = 50346)
C2_Witness == <<100756, 50346>> \in results /\ <<1969, 966>> \in results

\* C3: fuel(m) <= 0 exactly when m <= 8, and for such a line of pass 2
\* extra_fuel returned 0 having made no recursive call.
C3_BaseCase ==
    (pass = 2 /\ ReadDone(2) /\ pc # "eval") =>
        /\ \A i \in 1..Len(vals) :
               /\ (fuel(MassAt(2, i)) <= 0) <=> (MassAt(2, i) <= 8)
               /\ (MassAt(2, i) <= 8) => vals[i] = 0
        /\ (idx > 0 /\ idx = Len(vals) /\ MassAt(2, idx) <= 8) => calls = 0
C3_Witness ==
    /\ pass = 2 /\ pc = "comp" /\ idx = 1
    /\ MassAt(2, 1) = 6
    /\ vals = <<0>>
    /\ calls = 0

\* C4: along the call chain of extra_fuel every inner call is made on the
\* fuel of its caller's argument, that fuel is positive and strictly smaller
\* than the caller's argument; and every evaluation of extra_fuel that has
\* started comes to its end.
ChainDecreases ==
    \A i \in 1..(Len(stack) - 1) :
        /\ stack[i + 1].arg = fuel(stack[i].arg)
        /\ stack[i + 1].arg > 0
        /\ stack[i + 1].arg < stack[i].arg
C4_Terminates == []ChainDecreases /\ ((pc = "eval") ~> (pc # "eval"))
C4_Witness == Len(stack) >= 4 /\ stack[1].arg = 1969

\* Reference sums of a list of well-formed lines, folded from the right.
RECURSIVE FuelTotal(_)
FuelTotal(ls) ==
    IF ls = <<>> THEN 0 ELSE fuel(ParseInt(Head(ls)).val) + FuelTotal(Tail(ls))
RECURSIVE ExtraFuelTotal(_)
ExtraFuelTotal(ls) ==
    IF ls = <<>> THEN 0
    ELSE extra_fuel(ParseInt(Head(ls)).val) + ExtraFuelTotal(Tail(ls))
Unchanging == ~changed /\ ReadDone(1) /\ WellFormed(1)
ExampleOutput ==
    <<Label(1), <<"3", "4", "2", "4", "1">>, Label(2), <<"5", "1", "3", "1", "6">>>>

\* C5: standard output is at every moment a beginning of the four lines
\* "1-1:", sum, "1-2:", sum, in that order; for a file of well-formed lines
\* that is the same in both passes the sums are those of fuel and of
\* extra_fuel over its lines, the run does not fault and ends with exactly
\* the four lines; the example file gives 34241 and 51316.
C5_OutputBlocks ==
    /\ Len(out) <= 4
    /\ (Len(out) >= 1 => out[1] = Label(1))
    /\ (Len(out) >= 3 => out[3] = Label(2) /\ handle[1] = "closed")
    /\ Unchanging =>
           LET expected == <<Label(1), ToStr(FuelTotal(LinesOf(1))),
                             Label(2), ToStr(ExtraFuelTotal(LinesOf(1)))>>
           IN  /\ IsPrefix(out, expected)
               /\ fault = "none"
               /\ (pc = "done" => out = expected)
               /\ (pc = "done" /\ Flatten(LinesOf(1)) = ExampleFile
                       => out = ExampleOutput)
C5_Witness ==
    /\ pc = "done" /\ ~changed
    /\ Flatten(LinesOf(1)) = ExampleFile
    /\ out = ExampleOutput

\* C6: never two handles open; the second is opened only after the first is
\* closed; a pass reads the whole content while its handle is open; no handle
\* is open in a terminal state, a parse fault in either pass included.
C6_HandlesScoped ==
    /\ ~(handle[1] = "open" /\ handle[2] = "open")
    /\ (handle[2] # "unopened" => handle[1] = "closed")
    /\ \A p \in 1..2 : ReadDone(p) => handle[p] # "unopened"
    /\ (ReadDone(pass) /\ handle[pass] = "open") => Flatten(LinesOf(pass)) = disk.data
    /\ \A p \in 1..2 : (sums[p] # <<>> /\ handle[p] = "open") => pc \in {"print", "exit"}
    /\ (pc \in {"done", "fault"}) => \A p \in 1..2 : handle[p] # "open"
    /\ (pc = "done") => \A p \in 1..2 : handle[p] = "closed"
    /\ (fault = "ValueError") => handle[pass] = "closed"
C6_Witness ==
    /\ pc = "fault" /\ fault = "ValueError" /\ pass = 2
    /\ handle[1] = "closed" /\ handle[2] = "closed"

\* C7: a pass whose lines include a non-integer never computes or prints its
\* sum and never completes: the comprehension stops at the first such line
\* with ValueError, nothing runs after the fault, and after a fault in pass 1
\* pass 2 is not started.
C7_ParseFault ==
    /\ \A p \in 1..2 :
           (ReadDone(p) /\ HasBadLine(p)) =>
               /\ sums[p] = <<>>
               /\ Len(out) = 2 * p - 1
               /\ pass = p
               /\ pc \in {"comp", "eval", "fault"}
               /\ idx < FirstBad(p)
               /\ fault \in {"none", "ValueError"}
    /\ (fault = "ValueError") =>
           /\ pc = "fault"
           /\ HasBadLine(pass)
           /\ idx + 1 = FirstBad(pass)
           /\ (pass = 1 => handle[2] = "unopened" /\ ~ReadDone(2))
    /\ (pc = "fault") => ~ENABLED Next
C7_Witness ==
    /\ pc = "fault" /\ fault = "ValueError" /\ pass = 1
    /\ out = <<Label(1)>>
    /\ idx >= 1

\* C8: for a file that is empty in both passes the run does not fault, both
\* sums are 0 and the output ends as "1-1:", "0", "1-2:", "0".
C8_EmptyFile ==
    (disk = Present(<<>>) /\ ~changed) =>
        /\ fault = "none"
        /\ \A p \in 1..2 : ReadDone(p) => LinesOf(p) = <<>>
        /\ \A p \in 1..2 : sums[p] \in {<<>>, <<0>>}
        /\ IsPrefix(out, <<Label(1), Zero, Label(2), Zero>>)
        /\ (pc = "done" => out = <<Label(1), Zero, Label(2), Zero>>)
C8_Witness ==
    /\ disk = Present(<<>>) /\ ~changed /\ pc = "done"
    /\ out = <<Label(1), Zero, Label(2), Zero>>

\* The loop of the design notes: total = 0, x = m; x := fuel(x), total += x
\* while x > 0; stop at the first x <= 0.
RECURSIVE FuelLoop(_, _)
FuelLoop(x, total) ==
    LET y == fuel(x) IN IF y > 0 THEN FuelLoop(y, total + y) ELSE total

\* C9: every call extra_fuel(a) that returned, returned what the iterative
\* accumulation loop started at a computes.
C9_LoopEquivalence == \A r \in results : r[2] = FuelLoop(r[1], 0)
C9_Witness == \E r \in results : r[1] = 100756 /\ r[2] = FuelLoop(100756, 0) /\ r[2] > 0

\* C10: every value extra_fuel returned is >= 0 and >= fuel of its argument;
\* for a file that is the same in both passes the second sum, as computed and
\* as printed, is >= 0 and >= the first.
C10_NonNegative ==
    /\ \A r \in results : r[2] >= 0 /\ r[2] >= fuel(r[1])
    /\ (pc = "done" /\ ~changed) =>
           /\ sums[2][1] >= 0
           /\ sums[2][1] >= sums[1][1]
           /\ ParseInt(out[4]).ok /\ ParseInt(out[2]).ok
           /\ ParseInt(out[4]).val >= 0
           /\ ParseInt(out[4]).val >= ParseInt(out[2]).val
C10_Witness ==
    /\ pc = "done" /\ ~changed
    /\ sums[1][1] < 0
    /\ sums[2][1] = 0
    /\ Len(LinesOf(1)) = 2

====
